---- MODULE Spec2Model ----
(***************************************************************************)
(* pysgmcmc: the SGHMC sampler's per-step update graph                     *)
(* (pysgmcmc/samplers/sghmc.py) and the stepsize schedules                 *)
(* (pysgmcmc/stepsize_schedules.py).                                       *)
(*                                                                         *)
(* Numbers.  The tensors of the sampler are floating-point numbers of the  *)
(* constructor's dtype.  The model holds them as rationals <<n, d>>        *)
(* (d > 0, lowest terms) and rounds the result of every arithmetic op to   *)
(* the significand of the dtype (Fl, round to nearest, ties to even; the   *)
(* exponent range is not bounded).  The variable dtype is that number of   *)
(* significand bits; dtype = Exact rounds nothing, so that an identity is  *)
(* checked on the mathematical value of the expressions of the source.     *)
(* Two things are not rational:                                            *)
(*   - tf.sqrt: Sqrt rounds the root toward zero to a binary significand   *)
(*     of at least SqrtBits bits (as a floating-point sqrt does, with a    *)
(*     shorter significand); it is exact on squares of dyadic numbers;     *)
(*   - the safeguard 1e-16 (small_constant of safe_divide / safe_sqrt and  *)
(*     the floor of tf.maximum): it is kept as the symbolic number         *)
(*     SmallConstant = <<1, -16>>, read 1 * 10^-16.  x + 1e-16 is x for    *)
(*     x # 0 (the term is below the resolution of the operands; in         *)
(*     float64 it is absorbed outright for |x| >= 1) and SmallConstant     *)
(*     for x = 0.  NaN is <<0, 0>>.                                        *)
(* One parameter component is modelled: every op of the graph is           *)
(* element-wise and the loop of sghmc.py:164 builds one independent        *)
(* sub-graph per parameter.                                                *)
(***************************************************************************)
EXTENDS Integers, Sequences, FiniteSets, TLC

(* ----------------------------- bounds ---------------------------------- *)

\* sampling steps (session runs of Theta_t) explored from construction
MaxSteps == 3
\* significand bits kept by Sqrt
SqrtBits == 3
\* values next(schedule) is asked for
MaxTake == 4
\* update() calls counted
MaxUpdates == 3
\* leapfrog trials counted by the trial counter of find_reasonable_epsilon
MaxTrials == 4
\* significand bits of the rounding dtype (float64 has 53, float32 24)
SignificandBits == 3
\* sampling steps explored from construction under a rounding dtype
MaxFloatSteps == 4

\* SGHMCSampler.__init__(dtype): the significand bits of the tensors
VARIABLE dtype

\* the dtype that rounds nothing: real arithmetic
Exact == 0

(* --------------------------- rationals --------------------------------- *)

RECURSIVE GCD(_, _)
GCD(a, b) == IF b = 0 THEN a ELSE GCD(b, a % b)

Abs(n) == IF n < 0 THEN -n ELSE n

\* the rational n/d in lowest terms with a positive denominator
Rat(n, d) ==
    LET g == GCD(Abs(n), Abs(d))
        s == IF d < 0 THEN -1 ELSE 1
    IN  <<s * (n \div g), s * (d \div g)>>

Zero == <<0, 1>>
One == <<1, 1>>
Two == <<2, 1>>
Half == <<1, 2>>

Num(x) == x[1]
Den(x) == x[2]

RatNeg(x) == <<-x[1], x[2]>>

RatAdd(x, y) ==
    LET g == GCD(x[2], y[2])
    IN  Rat(x[1] * (y[2] \div g) + y[1] * (x[2] \div g), (x[2] \div g) * y[2])

RatSub(x, y) == RatAdd(x, RatNeg(y))

RatMul(x, y) ==
    LET g1 == GCD(Abs(x[1]), y[2])
        g2 == GCD(Abs(y[1]), x[2])
    IN  Rat((x[1] \div g1) * (y[1] \div g2), (x[2] \div g2) * (y[2] \div g1))

\* 1/x for x # 0
RatInv(x) == IF x[1] < 0 THEN <<-x[2], -x[1]>> ELSE <<x[2], x[1]>>

RatDiv(x, y) == RatMul(x, RatInv(y))

\* x <= y, by comparing the continued fractions of x and y (no products)
RECURSIVE RatLeq(_, _)
RatLeq(x, y) ==
    LET qx == x[1] \div x[2]
        qy == y[1] \div y[2]
        rx == x[1] % x[2]
        ry == y[1] % y[2]
    IN  IF qx # qy THEN qx < qy
        ELSE IF rx = 0 THEN TRUE
        ELSE IF ry = 0 THEN FALSE
        ELSE RatLeq(<<y[2], ry>>, <<x[2], rx>>)

RatLess(x, y) == ~RatLeq(y, x)

RatSquare(x) == RatMul(x, x)

\* x ** a for the exponents a = 1 and a = -1 of the heuristic (x > 0)
RatPow(x, a) == IF a = 1 THEN x ELSE RatInv(x)

(* ------------------- tensor_utils and tf numerics ---------------------- *)

\* small_constant = 1e-16, symbolic: smaller than every positive rational
\* the model can hold (those are >= 2^-31)
SmallConstant == <<1, -16>>

\* the result of tf.sqrt below zero
NaN == <<0, 0>>

\* sqrt(1e-16) = 1e-8
SqrtSmallConstant == <<1, 100000000>>

\* an ordinary rational
IsNumber(x) == x[2] > 0

\* x + small_constant
AddSmall(x) == IF x = Zero THEN SmallConstant ELSE x

\* floor of the square root of the natural number m
RECURSIVE ISqrtFrom(_, _)
ISqrtFrom(m, r) == IF (r + 1) * (r + 1) > m THEN r ELSE ISqrtFrom(m, r + 1)

ISqrt(m) == ISqrtFrom(m, 0)

RECURSIVE Pow(_, _)
Pow(b, e) == IF e = 0 THEN 1 ELSE b * Pow(b, e - 1)

\* n / d (n, d > 0) scaled by a power of two into [2^(bits-1), 2^bits):
\* <<n', d', e>> with n / d = (n' / d') * 2^e
RECURSIVE FlScale(_, _, _, _)
FlScale(n, d, e, bits) ==
    IF n >= d * Pow(2, bits) THEN FlScale(n, 2 * d, e + 1, bits)
    ELSE IF n < d * Pow(2, bits - 1) THEN FlScale(2 * n, d, e - 1, bits)
    ELSE <<n, d, e>>

\* the positive rational n / d rounded to a significand of bits bits, to
\* nearest, ties to even
FlRound(n, d, bits) ==
    LET t == FlScale(n, d, 0, bits)
        q == t[1] \div t[2]
        r == t[1] % t[2]
        m == IF 2 * r > t[2] \/ (2 * r = t[2] /\ q % 2 = 1) THEN q + 1 ELSE q
    IN  IF t[3] >= 0 THEN Rat(m * Pow(2, t[3]), 1) ELSE Rat(m, Pow(2, -t[3]))

\* the value a tensor of the dtype holds for the real number x
Fl(x) ==
    IF dtype = Exact \/ x[2] <= 0 \/ x[1] = 0 THEN x
    ELSE IF x[1] > 0 THEN FlRound(x[1], x[2], dtype)
    ELSE RatNeg(FlRound(-x[1], x[2], dtype))

\* the arithmetic ops on tensors of the dtype
FlAdd(x, y) == Fl(RatAdd(x, y))

FlSub(x, y) == Fl(RatSub(x, y))

FlMul(x, y) == Fl(RatMul(x, y))

FlDiv(x, y) == Fl(RatDiv(x, y))

FlSquare(x) == Fl(RatSquare(x))

\* least k with n * 4^k >= d * 4^SqrtBits
RECURSIVE SqrtShift(_, _, _)
SqrtShift(n, d, k) ==
    IF n >= d * Pow(4, SqrtBits) THEN k ELSE SqrtShift(4 * n, d, k + 1)

\* tf.sqrt: nan below zero, the root rounded toward zero otherwise
Sqrt(x) ==
    IF x = SmallConstant THEN SqrtSmallConstant
    ELSE IF x[1] < 0 THEN NaN
    ELSE IF x[1] = 0 THEN Zero
    ELSE LET k == SqrtShift(x[1], x[2], 0)
         IN  Fl(Rat(ISqrt((x[1] * Pow(4, k)) \div x[2]), Pow(2, k)))

\* tensor_utils.safe_sqrt(x) = sqrt(x + small_constant)
SafeSqrt(x) == Sqrt(AddSmall(x))

\* tensor_utils.safe_divide(n, d) = n / (d + small_constant)
SafeDivide(n, d) ==
    IF AddSmall(d) = SmallConstant
    THEN <<n[1] * Pow(10, 16), n[2]>>
    ELSE FlDiv(n, d)

\* a mutant of Maximum: the floor is lost, the variance is clamped at zero
MaximumNoFloor(x, floor) == IF RatLess(Zero, x) THEN x ELSE Zero

\* tf.maximum(x, floor) for floor = SmallConstant: every positive rational
\* of the model is above 1e-16
Maximum(x, floor) == IF RatLess(Zero, x) THEN x ELSE floor

(* ------------------------------ state ---------------------------------- *)

VARIABLES
    \* SGHMCSampler: graph constants (sghmc.py:108-114)
    Epsilon, Scale_grad, Mdecay,
    \* SGHMCSampler: tf.Variables (sghmc.py:125-154) and the parameter
    Tau, R, G, V_hat, Minv, V, Theta,
    \* tensors of the session run in progress
    Grad, Noise_scale, Sigma, Sample,
    \* the session run: whether one is in progress, the ops it has executed,
    \* the number of completed runs
    running, done, steps,
    \* history: Tau, G, V_hat, V as they were when the run in progress (or
    \* the last run) began
    old,
    \* ConstantStepsizeSchedule: its fields, the values next() returned, the
    \* number of update() calls, the constructor's argument
    initial_value, initialize_from_heuristic, taken, updates, constructed_value,
    \* find_reasonable_epsilon: locals (epsilon as a binary exponent), the
    \* position in the function, the returned value
    epsilon, a, p_0, p_, hpc, result,
    \* the sampler's graph variables as find_reasonable_epsilon sees them
    graph_vars,
    \* history of the call: leapfrog trials made, the graph variables the
    \* last trial started from, p_0 as first read, whether the ratio
    \* p_ / p_0 of the first trial was above 1/2, whether every earlier trial's ratio was still on the
    \* starting side of 0.5
    trials, trial_start, p_0_read, first_above, prior_uncrossed

samplerVars == <<dtype, Epsilon, Scale_grad, Mdecay, Tau, R, G, V_hat, Minv, V, Theta,
                 Grad, Noise_scale, Sigma, Sample, running, done, steps, old>>

scheduleVars == <<initial_value, initialize_from_heuristic, taken, updates,
                  constructed_value>>

heuristicVars == <<epsilon, a, p_0, p_, hpc, result, graph_vars, trials,
                   trial_start, p_0_read, first_above, prior_uncrossed>>

vars == <<samplerVars, scheduleVars, heuristicVars>>

(* ------------------------- SGHMCSampler -------------------------------- *)

\* constructor arguments (epsilon, mdecay, scale_grad) explored
Configs ==
    { [Epsilon |-> Rat(1, 10), Mdecay |-> Zero, Scale_grad |-> One],
      [Epsilon |-> Half, Mdecay |-> Half, Scale_grad |-> Rat(4, 1)] }

\* gradients tf.gradients may return in a run
GradValues == { Rat(-1, 1), Zero, One }

\* gradients explored under a rounding dtype
FloatGradValues == { Rat(-1, 1), Two }

\* the gradients and the number of runs explored: exact runs are kept
\* shorter, their denominators grow with every step
Gradients == IF dtype = Exact THEN GradValues ELSE FloatGradValues

StepBound == IF dtype = Exact THEN MaxSteps ELSE MaxFloatSteps

\* values the normal sample may take in a run
SampleValues == { Rat(-1, 1), Zero, One }

\* Noise = tf.constant(0.)
Noise == Zero

\* Epsilon_scaled = Epsilon / sqrt(Scale_grad)
EpsilonScaled(eps, scale_grad) == FlDiv(eps, Sqrt(scale_grad))

\* the ops of one parameter's sub-graph, in the order the source builds them
Ops == {"R_t", "Tau_t", "Minv_t", "G_t", "V_hat_t", "Sample", "V_t", "Theta_t"}

\* a mutant of ControlDeps: the tf.control_dependencies blocks are dropped,
\* only the data dependencies between the ops remain
DataDepsOnly(op) ==
    CASE op = "R_t" -> {}
      [] op = "Tau_t" -> {}
      [] op = "Minv_t" -> {}
      [] op = "G_t" -> {"R_t"}
      [] op = "V_hat_t" -> {"R_t"}
      [] op = "Sample" -> {"Minv_t"}
      [] op = "V_t" -> {"Minv_t", "Sample"}
      [] op = "Theta_t" -> {"V_t"}

\* the ops that must have executed before op: the nested
\* tf.control_dependencies blocks and the tensors op consumes
ControlDeps(op) ==
    CASE op = "R_t" -> {}
      [] op = "Tau_t" -> {"R_t"}
      [] op = "Minv_t" -> {"R_t"}
      [] op = "G_t" -> {"R_t", "Tau_t", "Minv_t"}
      [] op = "V_hat_t" -> {"R_t", "Tau_t", "Minv_t"}
      [] op = "Sample" -> {"R_t", "Tau_t", "Minv_t", "G_t", "V_hat_t"}
      [] op = "V_t" -> {"R_t", "Tau_t", "Minv_t", "G_t", "V_hat_t", "Sample"}
      [] op = "Theta_t" -> {"V_t"}

Ready(op) == running /\ op \notin done /\ ControlDeps(op) \subseteq done

\* a mutant of RValue: 1 / Tau, the form the comment at sghmc.py:160 asks about
RValueNoPlusOne(tau) == FlDiv(One, tau)

\* R_t = 1. / (Tau + 1)
RValue(tau) == FlDiv(One, FlAdd(tau, One))

\* a mutant of TauValue: the "+ 1" of the increment is lost
TauValueNoPlusOne(tau, g, v_hat) ==
    FlAdd(tau, SafeDivide(FlMul(FlMul(RatNeg(g), g), tau), v_hat))

\* a mutant of TauValue: the quotient is added instead of subtracted
TauValueSignFlipped(tau, g, v_hat) ==
    FlAdd(tau, FlAdd(SafeDivide(FlMul(FlMul(g, g), tau), v_hat), One))

\* Tau_t = Tau + (safe_divide(-G * G * Tau, V_hat) + 1)
TauValue(tau, g, v_hat) ==
    FlAdd(tau, FlAdd(SafeDivide(FlMul(FlMul(RatNeg(g), g), tau), v_hat), One))

\* Minv_t = safe_divide(1., safe_sqrt(V_hat))
MinvValue(v_hat) == SafeDivide(One, SafeSqrt(v_hat))

\* a mutant of GValue: the new observation enters with weight 1
GValueUnweighted(g, r_t, grad) ==
    FlAdd(g, FlAdd(FlMul(RatNeg(r_t), g), grad))

\* G_t = G + (-R_t * G + R_t * Grad)
GValue(g, r_t, grad) ==
    FlAdd(g, FlAdd(FlMul(RatNeg(r_t), g), FlMul(r_t, grad)))

\* V_hat_t = V_hat + (-R_t * V_hat + R_t * Grad ** 2)
VhatValue(v_hat, r_t, grad) ==
    FlAdd(v_hat, FlAdd(FlMul(RatNeg(r_t), v_hat), FlMul(r_t, FlSquare(grad))))

\* Noise_scale = 2 * Epsilon_scaled^2 * Mdecay * Minv_t
\*               - 2 * Epsilon_scaled^3 * Minv_t^2 * Noise - Epsilon_scaled^4
NoiseScaleValue(eps_scaled, mdecay, minv_t) ==
    LET e2 == FlSquare(eps_scaled)
        e3 == FlMul(e2, eps_scaled)
        e4 == FlSquare(e2)
    IN  FlSub(FlSub(FlMul(FlMul(FlMul(Two, e2), mdecay), minv_t),
                      FlMul(FlMul(FlMul(Two, e3), FlSquare(minv_t)), Noise)),
               e4)

\* Sigma = sqrt(maximum(Noise_scale, 1e-16))
SigmaValue(noise_scale) == Sqrt(Maximum(noise_scale, SmallConstant))

\* a mutant of MomentumEpsilon: Epsilon_scaled where the source has Epsilon
MomentumEpsilonScaled == EpsilonScaled(Epsilon, Scale_grad)

\* the stepsize of the momentum update: Epsilon itself
MomentumEpsilon == Epsilon

\* V_t = V + (-Epsilon ** 2 * Minv_t * Grad - Mdecay * V + Sample)
VValue(v, eps, minv_t, grad, mdecay, sample) ==
    FlAdd(v, FlAdd(FlSub(FlMul(FlMul(RatNeg(FlSquare(eps)), minv_t), grad),
                            FlMul(mdecay, v)),
                     sample))

\* Vectorized_Theta_t = Vectorized_Param + V_t
ThetaValue(theta, v_t) == FlAdd(theta, v_t)

\* the tf.Variables as their initializers leave them, and no run made
InitSamplerState ==
    /\ Tau = One
    /\ R = FlDiv(One, FlAdd(One, One))
    /\ G = One
    /\ V_hat = One
    /\ Minv = FlDiv(One, Sqrt(One))
    /\ V = Zero
    /\ Theta = Zero
    /\ Grad = Zero /\ Noise_scale = Zero /\ Sigma = Zero /\ Sample = Zero
    /\ running = FALSE
    /\ done = {}
    /\ old = [Tau |-> One, G |-> One, V_hat |-> One, V |-> Zero]

\* SGHMCSampler.__init__
InitSampler ==
    /\ \E c \in Configs :
          /\ Epsilon = Fl(c.Epsilon)
          /\ Mdecay = Fl(c.Mdecay)
          /\ Scale_grad = Fl(c.Scale_grad)
    /\ InitSamplerState
    /\ steps = 0

\* session.run of Theta_t begins: the gradient of the cost at the current
\* parameters is the run's Grad
BeginRun ==
    /\ ~running
    /\ steps < StepBound
    /\ \E grad \in Gradients : Grad' = grad
    /\ running' = TRUE
    /\ done' = {}
    /\ old' = [Tau |-> Tau, G |-> G, V_hat |-> V_hat, V |-> V]
    /\ UNCHANGED <<dtype, Epsilon, Scale_grad, Mdecay, Tau, R, G, V_hat, Minv, V, Theta,
                   Noise_scale, Sigma, Sample, steps>>
    /\ UNCHANGED <<scheduleVars, heuristicVars>>

AssignR ==
    /\ Ready("R_t")
    /\ R' = RValue(Tau)
    /\ done' = done \cup {"R_t"}
    /\ UNCHANGED <<dtype, Epsilon, Scale_grad, Mdecay, Tau, G, V_hat, Minv, V, Theta,
                   Grad, Noise_scale, Sigma, Sample, running, steps, old>>
    /\ UNCHANGED <<scheduleVars, heuristicVars>>

AssignTau ==
    /\ Ready("Tau_t")
    /\ Tau' = TauValue(Tau, G, V_hat)
    /\ done' = done \cup {"Tau_t"}
    /\ UNCHANGED <<dtype, Epsilon, Scale_grad, Mdecay, R, G, V_hat, Minv, V, Theta,
                   Grad, Noise_scale, Sigma, Sample, running, steps, old>>
    /\ UNCHANGED <<scheduleVars, heuristicVars>>

AssignMinv ==
    /\ Ready("Minv_t")
    /\ Minv' = MinvValue(V_hat)
    /\ done' = done \cup {"Minv_t"}
    /\ UNCHANGED <<dtype, Epsilon, Scale_grad, Mdecay, Tau, R, G, V_hat, V, Theta,
                   Grad, Noise_scale, Sigma, Sample, running, steps, old>>
    /\ UNCHANGED <<scheduleVars, heuristicVars>>

AssignG ==
    /\ Ready("G_t")
    /\ G' = GValue(G, R, Grad)
    /\ done' = done \cup {"G_t"}
    /\ UNCHANGED <<dtype, Epsilon, Scale_grad, Mdecay, Tau, R, V_hat, Minv, V, Theta,
                   Grad, Noise_scale, Sigma, Sample, running, steps, old>>
    /\ UNCHANGED <<scheduleVars, heuristicVars>>

AssignVhat ==
    /\ Ready("V_hat_t")
    /\ V_hat' = VhatValue(V_hat, R, Grad)
    /\ done' = done \cup {"V_hat_t"}
    /\ UNCHANGED <<dtype, Epsilon, Scale_grad, Mdecay, Tau, R, G, Minv, V, Theta,
                   Grad, Noise_scale, Sigma, Sample, running, steps, old>>
    /\ UNCHANGED <<scheduleVars, heuristicVars>>

\* Noise_scale, Sigma and the normal sample drawn with stddev Sigma
DrawSample ==
    /\ Ready("Sample")
    /\ Noise_scale' = NoiseScaleValue(EpsilonScaled(Epsilon, Scale_grad), Mdecay, Minv)
    /\ Sigma' = SigmaValue(Noise_scale')
    /\ \E s \in SampleValues : Sample' = s
    /\ done' = done \cup {"Sample"}
    /\ UNCHANGED <<dtype, Epsilon, Scale_grad, Mdecay, Tau, R, G, V_hat, Minv, V, Theta,
                   Grad, running, steps, old>>
    /\ UNCHANGED <<scheduleVars, heuristicVars>>

AssignV ==
    /\ Ready("V_t")
    /\ V' = VValue(V, MomentumEpsilon, Minv, Grad, Mdecay, Sample)
    /\ done' = done \cup {"V_t"}
    /\ UNCHANGED <<dtype, Epsilon, Scale_grad, Mdecay, Tau, R, G, V_hat, Minv, Theta,
                   Grad, Noise_scale, Sigma, Sample, running, steps, old>>
    /\ UNCHANGED <<scheduleVars, heuristicVars>>

\* Theta_t: the parameter is committed and the run returns
AssignTheta ==
    /\ Ready("Theta_t")
    /\ Theta' = ThetaValue(Theta, V)
    /\ done' = done \cup {"Theta_t"}
    /\ running' = FALSE
    /\ steps' = steps + 1
    /\ UNCHANGED <<dtype, Epsilon, Scale_grad, Mdecay, Tau, R, G, V_hat, Minv, V,
                   Grad, Noise_scale, Sigma, Sample, old>>
    /\ UNCHANGED <<scheduleVars, heuristicVars>>

SamplerNext ==
    \/ BeginRun
    \/ AssignR
    \/ AssignTau
    \/ AssignMinv
    \/ AssignG
    \/ AssignVhat
    \/ DrawSample
    \/ AssignV
    \/ AssignTheta

(* -------------------- ConstantStepsizeSchedule -------------------------- *)

\* initial_value arguments explored
StepsizeValues == { Rat(1, 100), Rat(1, 10), One }

\* arguments update(*args, **kwargs) is called with
UpdateArgs == { Zero, Two }

\* StepsizeSchedule.__init__
InitSchedule ==
    /\ initial_value \in StepsizeValues
    /\ initialize_from_heuristic \in BOOLEAN
    /\ taken = <<>>
    /\ updates = 0
    /\ constructed_value = initial_value

\* __next__: return self.initial_value
NextValue == initial_value

\* a mutant of UpdateValue: update stores its argument as the stepsize
UpdateValueOverwrites(value, arg) == arg

\* update: pass
UpdateValue(value, arg) == value

\* next(schedule)
NextStepsize ==
    /\ Len(taken) < MaxTake
    /\ taken' = Append(taken, NextValue)
    /\ UNCHANGED <<initial_value, initialize_from_heuristic, updates, constructed_value>>
    /\ UNCHANGED <<samplerVars, heuristicVars>>

\* schedule.update(arg)
Update ==
    /\ updates < MaxUpdates
    /\ \E arg \in UpdateArgs : initial_value' = UpdateValue(initial_value, arg)
    /\ updates' = updates + 1
    /\ UNCHANGED <<initialize_from_heuristic, taken, constructed_value>>
    /\ UNCHANGED <<samplerVars, heuristicVars>>

ScheduleNext ==
    \/ NextStepsize
    \/ Update

(* --------------------- find_reasonable_epsilon ------------------------- *)

\* epsilon is a float64 that starts at 1. and is only ever multiplied by 2.
\* or 0.5: it is held as its binary exponent.  2^1024 overflows to inf and
\* 2^-1075 rounds to 0.; both absorb every further multiplication.
DoubleInfExp == 1024
DoubleZeroExp == -1075

\* epsilon *= 2 ** a
ScaleEpsilon(e, dir) ==
    IF e = DoubleInfExp \/ e = DoubleZeroExp THEN e ELSE e + dir

\* values of the density p(r, costs) = exp(-costs - r.r / 2) explored: of
\* the state the call finds, and of the state a leapfrog trial proposes
P0Values == { One, Two }
PValues == { Half, One, Two }

\* the graph variables of the sampler: at their initial values, or as some
\* leapfrog step has left them
GraphStates == { "initial", "stepped" }

\* a = 2. * ((p_ / p_0) > 0.5) - 1.
Direction(ratio) == 2 * (IF RatLess(Half, ratio) THEN 1 ELSE 0) - 1

\* a mutant of LoopCond: the threshold is 2 ** a where the source has 2 ** -a
LoopCondThresholdNotNegated(ratio, dir) ==
    RatLess(RatPow(Two, dir), RatPow(ratio, dir))

\* a mutant of LoopCond: >= where the source has >
LoopCondInclusive(ratio, dir) == RatLeq(RatPow(Two, -dir), RatPow(ratio, dir))

\* the while condition: ((p_ / p_0) ** a) > 2 ** -a
LoopCond(ratio, dir) == RatLess(RatPow(Two, -dir), RatPow(ratio, dir))

\* a mutant of ResetGraph: the initializer is not run
ResetGraphSkipped(g) == g

\* sampler.session.run(tf.global_variables_initializer())
ResetGraph(g) == "initial"

\* sampler.leapfrog: one step of the sampler on its graph variables
Leapfrog(g) == "stepped"

\* the stop condition in the words of the docstring: the ratio has crossed
\* 0.5 against the direction of travel
Crossed(ratio, dir) ==
    \/ dir = 1 /\ RatLeq(ratio, Half)
    \/ dir = -1 /\ RatLeq(Half, ratio)

\* before the call; the sampler may or may not have been stepped already
InitHeuristic ==
    /\ epsilon = 0
    /\ a = 0
    /\ p_0 = One
    /\ p_ = One
    /\ hpc = "idle"
    /\ result = 0
    /\ graph_vars \in GraphStates
    /\ trials = 0
    /\ trial_start = "initial"
    /\ p_0_read = One
    /\ first_above = FALSE
    /\ prior_uncrossed = TRUE

\* lines 119-138: epsilon = 1., p_0 from the current state, the first
\* leapfrog trial, the direction a
Call ==
    /\ hpc = "idle"
    /\ epsilon' = 0
    /\ \E p \in P0Values : p_0' = p
    /\ trial_start' = graph_vars
    /\ graph_vars' = Leapfrog(graph_vars)
    /\ \E p \in PValues : p_' = p
    /\ a' = Direction(RatDiv(p_', p_0'))
    /\ hpc' = "loop"
    /\ trials' = 1
    /\ p_0_read' = p_0'
    /\ first_above' = RatLess(Half, RatDiv(p_', p_0'))
    /\ prior_uncrossed' = TRUE
    /\ UNCHANGED result
    /\ UNCHANGED <<samplerVars, scheduleVars>>

\* lines 140-150: one iteration of the while loop
Iterate ==
    /\ hpc = "loop"
    /\ LoopCond(RatDiv(p_, p_0), a)
    /\ epsilon' = ScaleEpsilon(epsilon, a)
    /\ trial_start' = ResetGraph(graph_vars)
    /\ graph_vars' = Leapfrog(trial_start')
    /\ \E p \in PValues : p_' = p
    /\ trials' = IF trials < MaxTrials THEN trials + 1 ELSE trials
    /\ prior_uncrossed' = (prior_uncrossed /\ ~Crossed(RatDiv(p_, p_0), a))
    /\ UNCHANGED <<a, p_0, hpc, result, p_0_read, first_above>>
    /\ UNCHANGED <<samplerVars, scheduleVars>>

\* line 152: return epsilon
Return ==
    /\ hpc = "loop"
    /\ ~LoopCond(RatDiv(p_, p_0), a)
    /\ result' = epsilon
    /\ hpc' = "done"
    /\ UNCHANGED <<epsilon, a, p_0, p_, graph_vars, trials, trial_start, p_0_read,
                   first_above, prior_uncrossed>>
    /\ UNCHANGED <<samplerVars, scheduleVars>>

HeuristicNext ==
    \/ Call
    \/ Iterate
    \/ Return

(* -------------------------- specifications ----------------------------- *)

\* the parts a specification does not exercise, at rest
SamplerAtRest ==
    /\ dtype = Exact
    /\ Epsilon = Rat(1, 10) /\ Mdecay = Zero /\ Scale_grad = One
    /\ InitSamplerState
    /\ steps = 0

ScheduleAtRest ==
    /\ initial_value = One
    /\ initialize_from_heuristic = FALSE
    /\ taken = <<>>
    /\ updates = 0
    /\ constructed_value = One

HeuristicAtRest ==
    /\ InitHeuristic
    /\ graph_vars = "initial"

\* the sampler from its construction on, in real arithmetic
Init == dtype = Exact /\ InitSampler /\ ScheduleAtRest /\ HeuristicAtRest

Next == SamplerNext

Spec == Init /\ [][Next]_vars

\* one run of the sampler's step from any burn-in state: Tau >= 1 and
\* G^2 <= V_hat, as the running estimates keep them
StepStates ==
    { s \in [Tau : {One, Two}, G : {Zero, One, Two}, V_hat : {One, Two, Rat(4, 1)},
             V : {Zero, One}] :
        RatLeq(RatSquare(s.G), s.V_hat) }

InitStep ==
    /\ dtype = Exact
    /\ \E c \in Configs :
          /\ Epsilon = c.Epsilon
          /\ Mdecay = c.Mdecay
          /\ Scale_grad = c.Scale_grad
    /\ \E s \in StepStates :
          /\ Tau = s.Tau
          /\ G = s.G
          /\ V_hat = s.V_hat
          /\ V = s.V
          /\ old = s
    /\ R = Half
    /\ Minv = One
    /\ Theta = Zero
    /\ Grad = Zero /\ Noise_scale = Zero /\ Sigma = Zero /\ Sample = Zero
    /\ running = FALSE
    /\ done = {}
    /\ steps = MaxSteps - 1
    /\ ScheduleAtRest
    /\ HeuristicAtRest

StepSpec == InitStep /\ [][SamplerNext]_vars

\* the sampler from its construction on, in real arithmetic or in the
\* floating-point arithmetic of a dtype of SignificandBits bits
DTypes == { Exact, SignificandBits }

FloatInit == dtype \in DTypes /\ InitSampler /\ ScheduleAtRest /\ HeuristicAtRest

FloatSpec == FloatInit /\ [][SamplerNext]_vars

\* a ConstantStepsizeSchedule under next() and update() calls
ScheduleInit == SamplerAtRest /\ InitSchedule /\ HeuristicAtRest

ScheduleSpec == ScheduleInit /\ [][ScheduleNext]_vars

\* one call of find_reasonable_epsilon
HeuristicInit == SamplerAtRest /\ ScheduleAtRest /\ InitHeuristic

HeuristicSpec == HeuristicInit /\ [][HeuristicNext]_vars

\* the interpreter keeps executing the call: a step that can be taken is
\* taken
FairHeuristicSpec == HeuristicSpec /\ WF_vars(HeuristicNext)

(* ------------------------------ claims --------------------------------- *)

\* the burn-in ops of the run have all executed
BurnInDone == {"R_t", "Tau_t", "Minv_t", "G_t", "V_hat_t"} \subseteq done

\* G_old^2 * Tau_old, the numerator of the quotient in the Tau increment
OldGSquareTau == RatMul(RatSquare(old.G), old.Tau)

\* C1: in every step R is 1/(Tau+1) of the Tau the step began with and Minv
\* is 1/sqrt(V_hat) of the V_hat the step began with, also after the step
\* has overwritten Tau and V_hat; Tau is not written before R has been
\* computed, G and V_hat are not written before R, Tau and Minv have been.
C1_ReadsPrecedeWrites ==
    /\ "R_t" \in done => RatMul(R, RatAdd(old.Tau, One)) = One
    /\ "Minv_t" \in done => Minv = RatDiv(One, Sqrt(old.V_hat))
    /\ "Tau_t" \in done => "R_t" \in done
    /\ ("G_t" \in done \/ "V_hat_t" \in done) => {"R_t", "Tau_t", "Minv_t"} \subseteq done

\* a later step has finished, it has changed Tau and V_hat, and R still
\* answers to the Tau before it
C1_Witness ==
    /\ steps >= 2
    /\ ~running
    /\ "Theta_t" \in done
    /\ Tau # old.Tau
    /\ V_hat # old.V_hat
    /\ RatMul(R, RatAdd(old.Tau, One)) = One

\* C2: one burn-in step computes, from the state it began with,
\* R = 1/(Tau_old+1), Tau = Tau_old + 1 - G_old^2*Tau_old/V_hat_old,
\* Minv = 1/sqrt(V_hat_old) (the root rounded down to SqrtBits bits, exact on
\* 1 and 4), G = (1-R)*G_old + R*Grad, V_hat = (1-R)*V_hat_old + R*Grad^2;
\* from Tau = 1, G = 2, V_hat = 4 with Grad = 1 it yields 1/2, 1, 1/2, 3/2, 5/2.
C2_BurnInStep ==
    BurnInDone =>
        /\ RatMul(R, RatAdd(old.Tau, One)) = One
        /\ RatMul(Tau, old.V_hat)
              = RatSub(RatAdd(RatMul(old.Tau, old.V_hat), old.V_hat), OldGSquareTau)
        /\ RatLeq(One, RatMul(RatSquare(Minv), old.V_hat))
        /\ RatLess(RatMul(RatSquare(Minv), old.V_hat),
                   RatSquare(RatAdd(One, Rat(1, Pow(2, SqrtBits)))))
        /\ old.V_hat \in {One, Rat(4, 1)} => RatMul(RatSquare(Minv), old.V_hat) = One
        /\ G = RatAdd(RatMul(RatSub(One, R), old.G), RatMul(R, Grad))
        /\ V_hat = RatAdd(RatMul(RatSub(One, R), old.V_hat), RatMul(R, RatSquare(Grad)))
        /\ (old.Tau = One /\ old.G = Two /\ old.V_hat = Rat(4, 1) /\ Grad = One) =>
              /\ R = Rat(1, 2)
              /\ Tau = One
              /\ Minv = Rat(1, 2)
              /\ G = Rat(3, 2)
              /\ V_hat = Rat(5, 2)

\* the step of the example has run
C2_Witness ==
    /\ BurnInDone
    /\ old.Tau = One /\ old.G = Two /\ old.V_hat = Rat(4, 1) /\ Grad = One
    /\ V_hat = Rat(5, 2)
    /\ G = Rat(3, 2)

\* the step in the other order: Tau is updated first, R is computed from the
\* new Tau, G and V_hat are mixed with that R
SwappedR == RValue(TauValue(old.Tau, old.G, old.V_hat))
SwappedG == GValue(old.G, SwappedR, Grad)
SwappedVhat == VhatValue(old.V_hat, SwappedR, Grad)

\* C3 as claimed: after every burn-in step, the other order would have given
\* a different R.
C3_SwappedOrderDiffers == BurnInDone => SwappedR # R

\* C3, amended: the other order gives a different R exactly when the step
\* changes Tau, that is when G_old^2 * Tau_old # V_hat_old; G then differs
\* exactly when also Grad # G_old, V_hat exactly when also Grad^2 # V_hat_old.
C3_SwappedOrderDiffersIffTauMoves ==
    BurnInDone =>
        /\ (SwappedR # R) <=> (OldGSquareTau # old.V_hat)
        /\ (SwappedG # G) <=> (SwappedR # R /\ Grad # old.G)
        /\ (SwappedVhat # V_hat) <=> (SwappedR # R /\ RatSquare(Grad) # old.V_hat)

\* a step in which the two orders part in R, G and V_hat
C3_Witness ==
    /\ BurnInDone
    /\ SwappedR # R
    /\ SwappedG # G
    /\ SwappedVhat # V_hat

\* C4 as claimed: no step lowers Tau.
C4_TauNonDecreasing == "Tau_t" \in done => RatLeq(old.Tau, Tau)

\* C4, amended: a step leaves Tau at or above its old value exactly when
\* G_old^2 * Tau_old <= V_hat_old, and lowers it otherwise; it never raises
\* Tau by more than 1.
C4_TauRisesIffQuotientAtMostOne ==
    "Tau_t" \in done =>
        /\ RatLeq(old.Tau, Tau) <=> RatLeq(OldGSquareTau, old.V_hat)
        /\ RatLeq(Tau, RatAdd(old.Tau, One))

\* a step from construction that lowers Tau
C4_Witness ==
    /\ "Tau_t" \in done
    /\ RatLess(Tau, old.Tau)
    /\ RatLess(old.V_hat, OldGSquareTau)

\* C5: the Sigma of every step is a number and at least sqrt(1e-16) = 1e-8;
\* when the raw Noise_scale is not positive it is exactly sqrt(1e-16).
C5_SigmaFloor ==
    "Sample" \in done =>
        /\ IsNumber(Sigma)
        /\ RatLeq(SqrtSmallConstant, Sigma)
        /\ RatLeq(Noise_scale, Zero) => Sigma = SqrtSmallConstant

\* a step whose raw Noise_scale is negative
C5_Witness ==
    /\ "Sample" \in done
    /\ RatLess(Noise_scale, Zero)
    /\ Sigma = SqrtSmallConstant

\* C6: the momentum after the update is
\* V_old*(1 - Mdecay) - Epsilon^2 * Minv * Grad + Sample, with the raw
\* Epsilon, the Minv assigned in the same run and the momentum the run began
\* with; with Mdecay = 0 it is V_old - Epsilon^2*Minv*Grad + Sample; with
\* Sample = 0, Grad = 1, Epsilon = 1/10, Minv = 1, V_old = 0 it is -1/100.
C6_MomentumUpdate ==
    "V_t" \in done =>
        /\ "Minv_t" \in done
        /\ V = RatAdd(RatSub(RatMul(old.V, RatSub(One, Mdecay)),
                             RatMul(RatMul(RatMul(Epsilon, Epsilon), Minv), Grad)),
                      Sample)
        /\ Mdecay = Zero =>
              V = RatAdd(RatSub(old.V, RatMul(RatSquare(Epsilon), RatMul(Minv, Grad))), Sample)
        /\ (Mdecay = Zero /\ Sample = Zero /\ Grad = One /\ Epsilon = Rat(1, 10)
              /\ Minv = One /\ old.V = Zero) => V = Rat(-1, 100)

\* the update of the example has run
C6_Witness ==
    /\ "V_t" \in done
    /\ Mdecay = Zero /\ Sample = Zero /\ Grad = One /\ Epsilon = Rat(1, 10)
    /\ Minv = One /\ old.V = Zero
    /\ V = Rat(-1, 100)

\* C7: whatever next() and update() calls have been made, initial_value is
\* the constructor's argument, so is the value next() returns now, and so is
\* every value next() has returned: n values taken are n copies of it.
C7_ConstantSchedule ==
    /\ initial_value = constructed_value
    /\ NextValue = constructed_value
    /\ \A i \in 1..Len(taken) : taken[i] = constructed_value

\* four values have been taken, with update() calls made
C7_Witness ==
    /\ Len(taken) >= 4
    /\ updates >= 2
    /\ taken[4] = constructed_value

\* the ratio p_ / p_0 of the latest trial
Ratio == RatDiv(p_, p_0)

\* C8: once the first trial is made the direction a is +1 if its ratio is
\* above 1/2 and -1 otherwise, and stays; epsilon is 2^(a * k) after k loop
\* iterations (k = trials - 1, up to the counter's bound) and never moves
\* against a; the ratio of every trial before the latest was still on the
\* starting side of 1/2; the call returns the current epsilon, the latest
\* ratio has then crossed (<= 1/2 when doubling, >= 1/2 when halving), and
\* the result is 2^0 = 1 when the first trial already had.
C8_FirstCrossingEpsilon ==
    hpc # "idle" =>
        /\ a \in {-1, 1}
        /\ (a = 1) <=> first_above
        /\ a * epsilon >= 0
        /\ trials < MaxTrials => epsilon = a * (trials - 1)
        /\ prior_uncrossed
        /\ hpc = "done" =>
              /\ result = epsilon
              /\ Crossed(Ratio, a)
              /\ trials = 1 => result = 0

\* a call that halved twice and returned 2^-2
C8_Witness ==
    /\ hpc = "done"
    /\ a = -1
    /\ trials = 3
    /\ result = -2
    /\ prior_uncrossed

\* C9: every trial after the first started from the initial values of the
\* graph variables, whatever the trial before it left behind, and p_0 is the
\* value read before the first trial.
C9_ResetBetweenTrials ==
    /\ trials >= 2 => trial_start = "initial"
    /\ hpc # "idle" => p_0 = p_0_read

\* a later trial has run from the initial values and left the graph
\* variables stepped
C9_Witness ==
    /\ trials >= 3
    /\ trial_start = "initial"
    /\ graph_vars = "stepped"
    /\ p_0 = p_0_read

\* C10 as claimed: every call returns.
C10_CallReturns == <>(hpc = "done")

\* C10, amended: a call returns once the ratio of a trial has crossed 1/2
\* against the direction of travel, and does not return before that.
C10_ReturnsOnceCrossed ==
    /\ [](hpc = "loop" /\ Crossed(Ratio, a) => <>(hpc = "done"))
    /\ [][hpc = "loop" /\ ~Crossed(Ratio, a) => hpc' # "done"]_vars

\* a call that went round the loop and returned
C10_Witness ==
    /\ hpc = "done"
    /\ trials >= 2
    /\ Crossed(Ratio, a)

\* x lies between y and z, the ends included: x is a convex combination
\* of y and z
Between(y, z, x) ==
    \/ RatLeq(y, x) /\ RatLeq(x, z)
    \/ RatLeq(z, x) /\ RatLeq(x, y)

\* the updates of the run in progress (or the last run) that have executed
\* are convex combinations of the old estimate and the new observation
ConvexUpdates ==
    /\ "G_t" \in done => Between(old.G, Grad, G)
    /\ "V_hat_t" \in done => Between(old.V_hat, RatSquare(Grad), V_hat)

====
